---- MODULE Spec2Model ----
(***************************************************************************)
(* Model of download_recordings.py: the batch download of the recordings   *)
(* listed in a report.  A string is a sequence of characters, a character  *)
(* a one-element TLA+ string; three code points outside ASCII carry a name *)
(* ("NBSP" is U+00A0, "FI" is U+FB01, "TAB" is U+0009).                    *)
(***************************************************************************)
EXTENDS Integers, Sequences, FiniteSets, TLC

VARIABLES
    report,        \* the list get_input returned (rows of the csv, in order)
    idx,           \* position of the for loop of main() in the report
    pc,            \* position of main() in its own code
    oAuth,         \* main()'s oAuth dict: a function from its keys
    now,           \* the wall clock, in microseconds
    minted,        \* number of access tokens the token endpoint has issued
    url,           \* main()'s local url
    filename,      \* main()'s local filename
    download_dir,  \* main()'s local download_dir
    dirs,          \* directories that exist on disk
    log,           \* everything the run did, in order: requests, disk, prints
    arg,           \* SpecPure: the call under test
    ret            \* SpecPure: what the call returned

mainVars == <<report, idx, pc, oAuth, now, minted, url, filename, download_dir, dirs, log>>
pureVars == <<arg, ret>>
vars == <<report, idx, pc, oAuth, now, minted, url, filename, download_dir, dirs, log, arg, ret>>

(***************************************************************************)
(* Bounds of the model.                                                    *)
(***************************************************************************)
MaxRows == 2
MaxSecs == 2
MaxMicros == 1
MaxLen == 3
MaxRep == 70

(***************************************************************************)
(* Program constants.                                                      *)
(***************************************************************************)
HTTP_OK == 200
NameLimit == 200
MicrosPerSec == 1000000

(***************************************************************************)
(* Characters.                                                             *)
(***************************************************************************)
LowerLetters == {"a", "b", "c", "d", "e", "f", "h", "i", "l", "n", "o", "r", "s", "t"}
UpperLetters == {"A", "B", "D"}
Digits == {"0", "1", "2", "3", "4", "5", "6", "7", "8", "9"}
Whitespace == {" ", "TAB", "NBSP"}
Punctuation == {"!", "/", ".", ":"}

\* \w of a str pattern: alphanumerics and the underscore
IsWord(c) == c \in LowerLetters \cup UpperLetters \cup Digits \cup {"_", "FI"}
\* \s of a str pattern
IsSpace(c) == c \in Whitespace

DigitVal(c) ==
    CASE c = "0" -> 0 [] c = "1" -> 1 [] c = "2" -> 2 [] c = "3" -> 3 [] c = "4" -> 4
      [] c = "5" -> 5 [] c = "6" -> 6 [] c = "7" -> 7 [] c = "8" -> 8 [] c = "9" -> 9

\* the concatenation of the strings ss[lo], ..., ss[hi]
RECURSIVE ConcatRange(_, _, _)
ConcatRange(ss, lo, hi) ==
    IF lo > hi THEN <<>>
    ELSE IF lo = hi THEN ss[lo]
    ELSE LET mid == (lo + hi) \div 2
         IN ConcatRange(ss, lo, mid) \o ConcatRange(ss, mid + 1, hi)

Concat(ss) == ConcatRange(ss, 1, Len(ss))

\* unicodedata.normalize('NFKC', c) of one character
NFKC1(c) ==
    CASE c = "NBSP" -> <<" ">>
      [] c = "FI" -> <<"f", "i">>
      [] OTHER -> <<c>>

NFKC(s) == Concat([i \in 1..Len(s) |-> NFKC1(s[i])])

\* str.lower() of one character
Lower1(c) ==
    CASE c = "A" -> "a"
      [] c = "B" -> "b"
      [] c = "D" -> "d"
      [] OTHER -> c

lower(s) == [i \in 1..Len(s) |-> Lower1(s[i])]

\* re.sub(r'[^\w\s-]', '', s)
RemoveOther(s) == SelectSeq(s, LAMBDA c : IsWord(c) \/ IsSpace(c) \/ c = "-")

IsSep(c) == IsSpace(c) \/ c = "-"

\* re.sub(r'[-\s]+', '-', s): the first character of every run becomes the dash,
\* the rest of the run goes
CollapseRuns(s) ==
    LET first == SelectSeq([i \in 1..Len(s) |-> i],
                           LAMBDA i : ~(IsSep(s[i]) /\ i > 1 /\ IsSep(s[i - 1])))
    IN [k \in 1..Len(first) |-> IF IsSep(s[first[k]]) THEN "-" ELSE s[first[k]]]

\* str.strip(chars)
Strip(s, chars) ==
    LET keep == {i \in 1..Len(s) : s[i] \notin chars}
    IN IF keep = {} THEN <<>>
       ELSE SubSeq(s, CHOOSE i \in keep : \A j \in keep : i <= j,
                      CHOOSE i \in keep : \A j \in keep : j <= i)

\* a strip that forgets the underscore
StripCharsDashOnly == {"-"}

StripChars == {"-", "_"}

slugify(value) ==
    Strip(CollapseRuns(RemoveOther(lower(NFKC(value)))), StripChars)

(***************************************************************************)
(* Configuration (download_config.ini) and string literals of the code.    *)
(***************************************************************************)
region_host == <<"h">>
lti_key == <<"a", "b", "c">>
script_dir == <<"/", "s">>
RecordingPath == <<"/", "r", "e", "c", "o", "r", "d", "i", "n", "g", "/">>
MP4 == <<".", "m", "p", "4">>
NoneDir == <<"/", "_", "n", "o", "n", "e", "/">>
FAILED == <<"F", "A", "I", "L", "E", "D">>
\* the value of a call that raised instead of returning
Raised == <<"raised">>

\* datetime.strptime(s, '%Y-%m-%d %H:%M:%S') followed by strftime("%Y%m%d_%H%M"),
\* for zero-padded fields and a four-digit year of 1000 or later; anything else
\* raises ValueError in the model (February has 28 days in it)
DaysIn(month) == IF month = 2 THEN 28 ELSE IF month \in {4, 6, 9, 11} THEN 30 ELSE 31

Num2(s, i) == 10 * DigitVal(s[i]) + DigitVal(s[i + 1])

DateWellFormed(s) ==
    /\ Len(s) = 19
    /\ s[5] = "-" /\ s[8] = "-" /\ s[11] = " " /\ s[14] = ":" /\ s[17] = ":"
    /\ \A i \in {1, 2, 3, 4, 6, 7, 9, 10, 12, 13, 15, 16, 18, 19} : s[i] \in Digits
    /\ s[1] # "0"
    /\ Num2(s, 6) \in 1..12
    /\ Num2(s, 9) \in 1..DaysIn(Num2(s, 6))
    /\ Num2(s, 12) \in 0..23
    /\ Num2(s, 15) \in 0..59
    /\ Num2(s, 18) \in 0..59

created_of(s) == SubSeq(s, 1, 4) \o SubSeq(s, 6, 7) \o SubSeq(s, 9, 10) \o <<"_">>
                     \o SubSeq(s, 12, 13) \o SubSeq(s, 15, 16)

\* a filename that is not cut
TruncateNot(s) == s

\* filename[:200]
Truncate(s) == SubSeq(s, 1, IF Len(s) < NameLimit THEN Len(s) ELSE NameLimit)

filename_from_report(recording) ==
    IF ~DateWellFormed(recording.RecordingCreated) THEN Raised
    ELSE LET created == created_of(recording.RecordingCreated)
             session == slugify(recording.SessionName)
             recname == slugify(recording.RecordingName)
         IN Truncate(created \o <<"_">> \o session \o <<"_">> \o recname) \o MP4

define_dir(root, folder) ==
    IF folder = <<>> THEN slugify(root) \o NoneDir
    ELSE slugify(root) \o <<"/">> \o slugify(folder)

\* strftime('%Y/%m/%d %H:%M:%S.%f') of an instant: the whole seconds and the
\* six-digit microsecond field
strftime_f(t) == <<t \div MicrosPerSec, t % MicrosPerSec>>
\* strptime(s, '%Y/%m/%d %H:%M:%S.%f')
strptime_f(s) == s[1] * MicrosPerSec + s[2]

\* is_token_exp, with the reading of datetime.now() as a parameter; a dict
\* without the key token_expires raises KeyError
ExpiredBefore(exp_datetime, clock) == exp_datetime < clock

is_token_exp_raises(auth) == "token_expires" \notin DOMAIN auth

is_token_exp(auth, clock) == ExpiredBefore(strptime_f(auth["token_expires"]), clock)

\* os.path.join(os.path.dirname(__file__), download_dir): an absolute second
\* part replaces the first
path_join(a, b) ==
    IF b # <<>> /\ b[1] = "/" THEN b
    ELSE IF a # <<>> /\ a[Len(a)] = "/" THEN a \o b
    ELSE a \o <<"/">> \o b

\* str.replace(old, ''): every occurrence of old, left to right, goes
RECURSIVE Remove(_, _)
Remove(s, old) ==
    IF Len(s) < Len(old) THEN s
    ELSE IF SubSeq(s, 1, Len(old)) = old THEN Remove(SubSeq(s, Len(old) + 1, Len(s)), old)
    ELSE <<Head(s)>> \o Remove(Tail(s), old)

recording_uid_of(recording) == Remove(recording.RecordingLink, region_host \o RecordingPath)

(***************************************************************************)
(* get_token: the dict it returns for a response of the token endpoint.    *)
(* The access token is named by the number of the mint that issued it.     *)
(***************************************************************************)
oAuthBase == [key |-> lti_key, secret |-> <<"s">>, endpoint |-> region_host \o <<"/", "c", "s", "a">>]

\* line 182: json.loads(rest.text) runs whatever the status
get_token_raises(resp) == ~resp.json

get_token(resp, clock, id) ==
    IF resp.status = HTTP_OK
    THEN [key |-> oAuthBase.key, secret |-> oAuthBase.secret, endpoint |-> oAuthBase.endpoint,
          token |-> id,
          token_expires |-> strftime_f(clock + resp.expires_in * MicrosPerSec)]
    ELSE oAuthBase

\* get_download_url: a dict without the key token raises KeyError before the request
get_download_url_raises(auth) == "token" \notin DOMAIN auth

\* a resolver that returns a url whatever the status
get_download_url_NoSentinel(uid, status) == <<"u">> \o uid

get_download_url(uid, status) == IF status = HTTP_OK THEN <<"u">> \o uid ELSE FAILED

\* a status check that never raises
raise_for_status_Never(status) == FALSE

\* Response.raise_for_status()
raise_for_status(status) == status >= 400 /\ status < 600

\* an owner test that lets every row through
NotOwned_Never(recording) == FALSE

\* main(), line 60
NotOwned(recording) == recording.SessionOwner # lti_key

download_path == <<"d", "l">>

(***************************************************************************)
(* The inputs of the model: reports, responses of the servers, clock.      *)
(***************************************************************************)
GoodDate == <<"2", "0", "2", "2", "-", "0", "6", "-", "0", "1", " ", "1", "0", ":", "0", "0", ":", "0", "0">>
LateDate == <<"1", "9", "9", "9", "-", "1", "2", "-", "3", "1", " ", "2", "3", ":", "5", "9", ":", "5", "9">>
BadDate == <<"2", "0", "2", "2", "/", "0", "6", "/", "0", "1", " ", "1", "0", ":", "0", "0", ":", "0", "0">>

Link(uid) == region_host \o RecordingPath \o uid

Row(owner, uid, context, created, session, recname) ==
    [SessionOwner |-> owner, RecordingLink |-> Link(uid), ContextIdentifier |-> context,
     RecordingCreated |-> created, SessionName |-> session, RecordingName |-> recname]

MainRows ==
    { Row(lti_key, <<"1", " ">>, <<"A", "1">>, GoodDate, <<"A", " ", "b">>, <<"B">>),
      Row(<<"b">>, <<"2">>, <<"A", "1">>, GoodDate, <<"a">>, <<"b">>),
      Row(lti_key, <<"3">>, <<>>, LateDate, <<"a">>, <<"b", "!">>),
      Row(lti_key, <<"4">>, <<"A", "1">>, BadDate, <<"a">>, <<"b">>) }

Reports == UNION {[1..n -> MainRows] : n \in 0..MaxRows}

ExpiresIn == {1, 2}
MintResponses ==
    {[status |-> HTTP_OK, json |-> TRUE, expires_in |-> e] : e \in ExpiresIn}
        \cup {[status |-> 401, json |-> TRUE, expires_in |-> 0],
              [status |-> 502, json |-> FALSE, expires_in |-> 0]}
ResolveStatuses == {HTTP_OK, 404, 500}
DownloadStatuses == {HTTP_OK, 403}

\* the steps the clock makes: a microsecond, a second
ClockSteps == {1, MicrosPerSec}

(***************************************************************************)
(* main()                                                                  *)
(***************************************************************************)
recording == report[idx]

RaiseEvent(what) == [op |-> "raise", row |-> idx, what |-> what]

Crash(what) ==
    /\ pc' = "crashed"
    /\ log' = Append(log, RaiseEvent(what))

MintEvent(resp) ==
    [op |-> "mint", row |-> idx, status |-> resp.status,
     token |-> IF resp.status = HTTP_OK THEN minted + 1 ELSE 0]

\* oAuth = get_token(), continuing at next
Mint(next) ==
    \E resp \in MintResponses :
        IF get_token_raises(resp)
        THEN /\ pc' = "crashed"
             /\ log' = log \o <<MintEvent(resp), RaiseEvent("JSONDecodeError")>>
             /\ UNCHANGED <<oAuth, minted>>
        ELSE /\ oAuth' = get_token(resp, now, minted + 1)
             /\ minted' = IF resp.status = HTTP_OK THEN minted + 1 ELSE minted
             /\ log' = Append(log, MintEvent(resp))
             /\ pc' = next

\* line 48
GetTokenInitial ==
    /\ pc = "start"
    /\ Mint("input")
    /\ UNCHANGED <<report, idx, now, url, filename, download_dir, dirs, arg, ret>>

\* line 50 and the start of the for loop
GetInput ==
    /\ pc = "input"
    /\ idx' = 1
    /\ pc' = "loop"
    /\ UNCHANGED <<report, oAuth, now, minted, url, filename, download_dir, dirs, log, arg, ret>>

\* line 53
CheckToken ==
    /\ pc = "loop"
    /\ idx <= Len(report)
    /\ IF is_token_exp_raises(oAuth)
       THEN Crash("KeyError")
       ELSE LET expired == is_token_exp(oAuth, now)
            IN /\ log' = Append(log, [op |-> "check", row |-> idx, token |-> oAuth.token,
                                      expired |-> expired])
               /\ pc' = IF expired THEN "refresh" ELSE "owner"
    /\ UNCHANGED <<report, idx, oAuth, now, minted, url, filename, download_dir, dirs, arg, ret>>

\* a refresh whose result is dropped: the old token stays in use
RefreshToken_Dropped ==
    /\ pc = "refresh"
    /\ \E resp \in MintResponses :
          /\ ~get_token_raises(resp)
          /\ minted' = IF resp.status = HTTP_OK THEN minted + 1 ELSE minted
          /\ log' = Append(log, MintEvent(resp))
          /\ pc' = "owner"
    /\ UNCHANGED <<report, idx, oAuth, now, url, filename, download_dir, dirs, arg, ret>>

\* line 54
RefreshToken ==
    /\ pc = "refresh"
    /\ Mint("owner")
    /\ UNCHANGED <<report, idx, now, url, filename, download_dir, dirs, arg, ret>>

\* lines 55 to 62
OwnerCheck ==
    /\ pc = "owner"
    /\ IF NotOwned(recording)
       THEN /\ log' = Append(log, [op |-> "skipped", row |-> idx])
            /\ idx' = idx + 1
            /\ pc' = "loop"
       ELSE /\ pc' = "resolve"
            /\ UNCHANGED <<idx, log>>
    /\ UNCHANGED <<report, oAuth, now, minted, url, filename, download_dir, dirs, arg, ret>>

\* lines 65 to 67
Resolve ==
    /\ pc = "resolve"
    /\ IF get_download_url_raises(oAuth)
       THEN Crash("KeyError") /\ UNCHANGED <<idx, url>>
       ELSE \E status \in ResolveStatuses :
              LET u == get_download_url(Strip(recording_uid_of(recording), Whitespace), status)
              IN /\ url' = u
                 /\ log' = Append(log, [op |-> "resolve", row |-> idx, token |-> oAuth.token,
                                        status |-> status])
                 /\ IF u = FAILED
                    THEN idx' = idx + 1 /\ pc' = "loop"
                    ELSE idx' = idx /\ pc' = "target"
    /\ UNCHANGED <<report, oAuth, now, minted, filename, download_dir, dirs, arg, ret>>

\* lines 69 and 70
BuildTarget ==
    /\ pc = "target"
    /\ LET f == filename_from_report(recording)
       IN IF f = Raised
          THEN Crash("ValueError") /\ UNCHANGED <<filename, download_dir>>
          ELSE /\ filename' = f
               /\ download_dir' = define_dir(download_path, recording.ContextIdentifier)
               /\ pc' = "download"
               /\ UNCHANGED log
    /\ UNCHANGED <<report, idx, oAuth, now, minted, url, dirs, arg, ret>>

\* line 73: download_recording(url, filename, download_dir), lines 138 to 145
\* (the response of the request of line 138 is dropped unread)
download_recording ==
    \E streamed \in DownloadStatuses :
        LET path == path_join(script_dir, download_dir)
            file == path_join(path, filename)
            gets == << [op |-> "get", row |-> idx, url |-> url, stream |-> FALSE],
                       [op |-> "get", row |-> idx, url |-> url, stream |-> TRUE, status |-> streamed] >>
        IN IF raise_for_status(streamed)
           THEN /\ pc' = "crashed"
                /\ log' = log \o gets \o <<RaiseEvent("HTTPError")>>
                /\ UNCHANGED dirs
           ELSE /\ dirs' = dirs \cup {path}
                /\ log' = log \o gets
                              \o (IF path \in dirs THEN <<>>
                                  ELSE <<[op |-> "makedirs", row |-> idx, path |-> path]>>)
                              \o <<[op |-> "write", row |-> idx, path |-> file]>>
                /\ pc' = "print"

DownloadRecording ==
    /\ pc = "download"
    /\ download_recording
    /\ UNCHANGED <<report, idx, oAuth, now, minted, url, filename, download_dir, arg, ret>>

\* line 74 and the step of the for loop
PrintDownloaded ==
    /\ pc = "print"
    /\ log' = Append(log, [op |-> "downloaded", row |-> idx])
    /\ idx' = idx + 1
    /\ pc' = "loop"
    /\ UNCHANGED <<report, oAuth, now, minted, url, filename, download_dir, dirs, arg, ret>>

\* the for loop is exhausted: main() returns
Finish ==
    /\ pc = "loop"
    /\ idx > Len(report)
    /\ pc' = "done"
    /\ UNCHANGED <<report, idx, oAuth, now, minted, url, filename, download_dir, dirs, log, arg, ret>>

\* time passes while main() runs
Tick ==
    /\ pc \notin {"idle", "done", "crashed"}
    /\ \E d \in ClockSteps :
          /\ (now + d) \div MicrosPerSec <= MaxSecs
          /\ (now + d) % MicrosPerSec <= MaxMicros
          /\ now' = now + d
    /\ UNCHANGED <<report, idx, pc, oAuth, minted, url, filename, download_dir, dirs, log, arg, ret>>

NoCall == [f |-> "none"]

Init ==
    /\ report \in Reports
    /\ idx = 0
    /\ pc = "start"
    /\ oAuth = oAuthBase
    /\ now = 0
    /\ minted = 0
    /\ url = <<>>
    /\ filename = <<>>
    /\ download_dir = <<>>
    /\ dirs = {}
    /\ log = <<>>
    /\ arg = NoCall
    /\ ret = <<>>

Next ==
    \/ GetTokenInitial
    \/ GetInput
    \/ CheckToken
    \/ RefreshToken
    \/ OwnerCheck
    \/ Resolve
    \/ BuildTarget
    \/ DownloadRecording
    \/ PrintDownloaded
    \/ Finish
    \/ Tick

Spec == Init /\ [][Next]_vars

(***************************************************************************)
(* The helper functions on their own: one call, on an input of a bounded   *)
(* set.                                                                    *)
(***************************************************************************)
SlugChars == {"a", "B", "7", "_", "-", " ", "!", "NBSP", "FI"}
SlugInputs == UNION {[1..n -> SlugChars] : n \in 0..MaxLen}

\* s repeated n times
Rep(s, n) == [i \in 1..(n * Len(s)) |-> s[((i - 1) % Len(s)) + 1]]

NameChunks == {<<"A", "b", " ">>, <<"-", "_", "!">>, <<"FI", "7", "TAB", " ">>}
Names == {Rep(c, n) : c \in NameChunks, n \in {0, 1, MaxRep}}
Dates == {GoodDate, LateDate, BadDate, <<>>}
FilenameInputs ==
    {Row(lti_key, <<"1">>, <<>>, d, sn, rn) : d \in Dates, sn \in Names, rn \in Names}

Roots == {<<"d", "l">>, <<"D", "l">>, <<".", "/", "d", "l">>, <<"/", "d", "/", "l">>, <<".">>}
Folders == {<<>>, <<"A", "1">>, <<"a", "-", "1">>, <<"a", "/", "B">>, <<" ">>, <<"_", "a", " ", " ", "b">>}

Instants ==
    {sec * MicrosPerSec + f : sec \in 0..MaxSecs, f \in (0..MaxMicros) \cup {MicrosPerSec - 1}}

InitPure ==
    /\ report = <<>>
    /\ idx = 0
    /\ pc = "idle"
    /\ oAuth = oAuthBase
    /\ now = 0
    /\ minted = 0
    /\ url = <<>>
    /\ filename = <<>>
    /\ download_dir = <<>>
    /\ dirs = {}
    /\ log = <<>>
    /\ ret = <<>>
    /\ \/ \E v \in SlugInputs : arg = [f |-> "slugify", value |-> v]
       \/ \E r \in FilenameInputs : arg = [f |-> "filename_from_report", recording |-> r]
       \/ \E r \in Roots, c \in Folders : arg = [f |-> "define_dir", root |-> r, folder |-> c]
       \/ \E e \in Instants, t \in Instants :
             arg = [f |-> "is_token_exp", oAuth |-> get_token([status |-> HTTP_OK, json |-> TRUE, expires_in |-> 0], e, 1),
                    now |-> t]

Returns(value) ==
    /\ ret = <<>>
    /\ ret' = <<value>>
    /\ UNCHANGED <<arg, report, idx, pc, oAuth, now, minted, url, filename, download_dir, dirs, log>>

CallSlugify == arg.f = "slugify" /\ Returns(slugify(arg.value))

CallFilename == arg.f = "filename_from_report" /\ Returns(filename_from_report(arg.recording))

CallDefineDir == arg.f = "define_dir" /\ Returns(define_dir(arg.root, arg.folder))

CallIsTokenExp == arg.f = "is_token_exp" /\ Returns(is_token_exp(arg.oAuth, arg.now))

NextPure == CallSlugify \/ CallFilename \/ CallDefineDir \/ CallIsTokenExp

SpecPure == InitPure /\ [][NextPure]_vars

(***************************************************************************)
(* Properties.                                                             *)
(***************************************************************************)
\* the events of the log that are about report row k
EventsOf(k) == {j \in DOMAIN log : log[j].row = k}

\* the loop went on after log[j], the last event of row k: it stands at row
\* k + 1 (or has ended, when k was the last row), and the event after log[j],
\* when there is one, opens the iteration of row k + 1: the expiry check, or the
\* exception the expiry check raised
NextRowFollows(j, k) ==
    IF j = Len(log)
    THEN /\ idx = k + 1
         /\ pc = "loop" \/ (pc = "done" /\ k = Len(report))
    ELSE /\ log[j + 1].row = k + 1
         /\ log[j + 1].op \in {"check", "raise"}

RowEffects == {"resolve", "get", "makedirs", "write", "downloaded"}

\* C1: a row whose SessionOwner is not the configured LtiKey gets no resolver
\* request, no download request, no directory and no file; main() prints the
\* skip and goes on to the next row.
C1_ForeignRowsSkipped ==
    /\ \A j \in DOMAIN log :
          /\ log[j].op \in RowEffects => report[log[j].row].SessionOwner = lti_key
          /\ log[j].op = "skipped" =>
                /\ report[log[j].row].SessionOwner # lti_key
                /\ NextRowFollows(j, log[j].row)
    /\ pc \in {"resolve", "target", "download", "print"} => report[idx].SessionOwner = lti_key

C1_Witness ==
    /\ pc = "done"
    /\ Len(report) = 2
    /\ report[1].SessionOwner # lti_key
    /\ report[2].SessionOwner = lti_key
    /\ \E j \in DOMAIN log : log[j].op = "skipped" /\ log[j].row = 1
    /\ \E j \in DOMAIN log : log[j].op = "downloaded" /\ log[j].row = 2

\* C2: a resolver answer other than 200 makes get_download_url return the
\* sentinel without raising; the row gets no download request and no file, and
\* the loop continues with the next row.
C2_ResolverFailureSkipsRow ==
    \A j \in DOMAIN log :
        (log[j].op = "resolve" /\ log[j].status # HTTP_OK) =>
            /\ \A i \in EventsOf(log[j].row) :
                  log[i].op \notin {"get", "makedirs", "write", "downloaded", "raise"}
            /\ NextRowFollows(j, log[j].row)
            /\ j = Len(log) => url = FAILED

C2_Witness ==
    /\ pc = "done"
    /\ \E j \in DOMAIN log :
          /\ log[j].op = "resolve" /\ log[j].status = 404 /\ log[j].row = 1
          /\ \E i \in DOMAIN log : i > j /\ log[i].op = "downloaded" /\ log[i].row = 2

\* C3: after a token mint that got a non-200 response no row is handled (the
\* only thing that can follow is the abort) and the run does not complete
\* normally.
C3_FailedMintAborts ==
    \A j \in DOMAIN log :
        (log[j].op = "mint" /\ log[j].status # HTTP_OK) =>
            /\ pc # "done"
            /\ \A i \in DOMAIN log : i > j => log[i].op = "raise"

\* C4: is_token_exp returns true exactly when the stored expiry instant is at
\* or before the current instant.
C4_ExpiredAtOrBefore ==
    (arg.f = "is_token_exp" /\ ret # <<>>) =>
        (ret[1] <=> strptime_f(arg.oAuth.token_expires) <= arg.now)

\* C5: in every iteration the expiry check comes first; a token found expired
\* is replaced by a fresh one before the resolver request, so the token of a
\* resolver request is the one the check of that row found not expired, or the
\* one minted in that row after the check found the old one expired.
C5_TokenCheckedBeforeResolve ==
    /\ \A k \in 1..Len(report) :
          EventsOf(k) # {} =>
              LET c == CHOOSE i \in EventsOf(k) : \A i2 \in EventsOf(k) : i <= i2
              IN \/ log[c].op = "check"
                 \/ log[c].op = "raise" /\ log[c].what = "KeyError" /\ c = Len(log)
    /\ \A j \in DOMAIN log :
          /\ (log[j].op = "check" /\ log[j].expired /\ j < Len(log)) =>
                log[j + 1].op = "mint" /\ log[j + 1].row = log[j].row
          /\ log[j].op = "resolve" =>
                LET c == CHOOSE i \in EventsOf(log[j].row) :
                            \A i2 \in EventsOf(log[j].row) : i <= i2
                IN /\ log[c].op = "check"
                   /\ IF log[c].expired
                      THEN /\ j = c + 2
                           /\ log[c + 1].status = HTTP_OK
                           /\ log[c + 1].token = log[j].token
                           /\ log[c + 1].token # log[c].token
                      ELSE /\ j = c + 1
                           /\ log[j].token = log[c].token

C5_Witness ==
    \E j \in DOMAIN log :
        /\ j > 2
        /\ log[j].op = "resolve"
        /\ log[j].row = 2
        /\ log[j - 2].op = "check" /\ log[j - 2].expired
        /\ log[j].token = 2

\* C6: the filename filename_from_report returns ends with ".mp4" and has at
\* most 200 characters before that extension.
C6_StemAtMost200 ==
    (arg.f = "filename_from_report" /\ ret # <<>> /\ ret[1] # Raised) =>
        LET n == Len(ret[1])
        IN /\ n >= Len(MP4)
           /\ SubSeq(ret[1], n - Len(MP4) + 1, n) = MP4
           /\ n - Len(MP4) <= 200

C6_Witness ==
    /\ arg.f = "filename_from_report"
    /\ ret # <<>>
    /\ ret[1] # Raised
    /\ Len(slugify(arg.recording.SessionName)) + Len(slugify(arg.recording.RecordingName)) > 200
    /\ Len(ret[1]) = 204

\* C7: define_dir returns the configured DownloadPath, then the subdirectory
\* "_none" for an empty ContextIdentifier and the slugified ContextIdentifier
\* otherwise (a trailing slash apart).
C7_UnderDownloadPath ==
    (arg.f = "define_dir" /\ ret # <<>>) =>
        LET sub == IF arg.folder = <<>> THEN <<"_", "n", "o", "n", "e">> ELSE slugify(arg.folder)
        IN ret[1] \in {arg.root \o <<"/">> \o sub, arg.root \o <<"/">> \o sub \o <<"/">>}

C9_DownloadErrorHalts ==
    \A j \in DOMAIN log :
        /\ (log[j].op = "get" /\ log[j].stream /\ log[j].status >= 400) =>
              /\ pc = "crashed"
              /\ j + 1 = Len(log)
              /\ log[j + 1].op = "raise"
              /\ \A i \in DOMAIN log :
                    /\ log[i].row <= log[j].row
                    /\ ~(log[i].op = "downloaded" /\ log[i].row = log[j].row)
        /\ log[j].op = "downloaded" =>
              /\ j > 1
              /\ log[j - 1].op = "write"
              /\ log[j - 1].row = log[j].row

C9_Witness ==
    /\ pc = "crashed"
    /\ idx = 1
    /\ Len(report) = 2
    /\ report[2].SessionOwner = lti_key
    /\ log[Len(log)].op = "raise" /\ log[Len(log)].what = "HTTPError"
    /\ log[Len(log) - 1].status = 403

\* C10: for a row that is downloaded the signed URL is fetched exactly once,
\* with streaming, and the file is written after that request.
C10_StreamedOnce ==
    \A j \in DOMAIN log :
        log[j].op = "write" =>
            LET gets == {i \in EventsOf(log[j].row) : log[i].op = "get"}
            IN /\ Cardinality(gets) = 1
               /\ \A i \in gets : log[i].stream /\ i < j

====
